---- MODULE Spec2Model ----
(***************************************************************************)
(* Model of the Gaia retrieval-filter-derive pipeline                      *)
(* (data_plotting/src/data_retrieval.py, retrieve_data) and of the batch   *)
(* driver that calls it (data_plotting/src/hr.py, main).                   *)
(*                                                                         *)
(* Floating point values are fixed point, in thousandths: 15.0 mag is      *)
(* Num(15000), the ruwe limit 1.4 is Num(1400).  A float is a record       *)
(* [kind, v]; kind is "num", "nan" (IEEE NaN), "-inf" (IEEE -infinity) or  *)
(* "masked" (a missing cell of the astropy table, before to_pandas).       *)
(***************************************************************************)
EXTENDS Integers, Sequences, FiniteSets, TLC

\* ---------------------------------------------------------------- bounds
\* Longest catalog content of a region in the single-run specification.
MaxRows == 2
\* Longest catalog content when two runs are interleaved.
MaxRowsConc == 2
\* Longest catalog content in the batch specification.
MaxRowsBatch == 1
\* Longest batch configuration (rows of clusters.csv).
MaxClusters == 3

\* ------------------------------------------------------ program constants
\* hr.py: ROW_LIMIT = 1000
ROW_LIMIT == 1000
\* hr.py: RUN_ALL = False
RUN_ALL == FALSE
\* hr.py: PLOT_SINGLE = True
PLOT_SINGLE == TRUE

RunIds == {1, 2}

\* ----------------------------------------------------------------- floats
Num(n) == [kind |-> "num", v |-> n]
NaN == [kind |-> "nan", v |-> 0]
NegInf == [kind |-> "-inf", v |-> 0]
Masked == [kind |-> "masked", v |-> 0]

\* pandas isna(): NaN is missing, -inf and numbers are not.
IsNA(x) == x.kind = "nan"

\* IEEE a < b on the values the pipeline meets: any comparison with NaN is
\* False, -inf is below every number.
FloatLt(a, b) ==
    CASE a.kind = "nan" \/ b.kind = "nan" -> FALSE
      [] a.kind = "-inf" -> b.kind = "num"
      [] b.kind = "-inf" -> FALSE
      [] OTHER -> a.v < b.v

\* IEEE a + b (no +inf occurs, so -inf + x is -inf unless x is NaN).
FloatAdd(a, b) ==
    CASE a.kind = "nan" \/ b.kind = "nan" -> NaN
      [] a.kind = "-inf" \/ b.kind = "-inf" -> NegInf
      [] OTHER -> Num(a.v + b.v)

\* IEEE a - b for finite or NaN operands (magnitudes are never infinite).
FloatSub(a, b) ==
    CASE a.kind = "nan" \/ b.kind = "nan" -> NaN
      [] a.kind = "-inf" -> NegInf
      [] OTHER -> Num(a.v - b.v)

\* IEEE k * a for a positive integer k.
FloatScale(k, a) ==
    CASE a.kind = "num" -> Num(k * a.v)
      [] OTHER -> a

\* log10 of a positive value, in thousandths, on the parallaxes of the model
\* (log10(1) = 0, log10(2) = 0.301, log10(10) = 1).
Log10Table(v) ==
    CASE v = 1000 -> 0
      [] v = 2000 -> 301
      [] v = 10000 -> 1000

\* numpy.log10: NaN for NaN and for a negative argument (invalid value),
\* -inf for exactly zero (divide by zero), no exception in either case.
Log10(x) ==
    CASE x.kind = "nan" -> NaN
      [] x.kind = "-inf" -> NaN
      [] x.v < 0 -> NaN
      [] x.v = 0 -> NegInf
      [] OTHER -> Num(Log10Table(x.v))

\* ------------------------------------------------------- catalog records
\* The float columns of `columns`, in the order of the list.
FloatColumns ==
    {"ra", "dec", "parallax", "parallax_error", "phot_g_mean_mag",
     "phot_bp_mean_mag", "phot_rp_mean_mag", "ruwe", "radial_velocity"}

\* The subset= list of the dropna call.
RequiredFields ==
    {"phot_g_mean_mag", "phot_bp_mean_mag", "phot_rp_mean_mag", "parallax",
     "parallax_error", "ruwe"}

\* A fully valid record (parallax 2.0 mas, G = 15.0) and the values a cell
\* may take instead; a catalog record differs from the valid one in at most
\* one cell.
ValidCells ==
    [parallax |-> Num(2000), parallax_error |-> Num(4000),
     phot_g_mean_mag |-> Num(15000), phot_bp_mean_mag |-> Num(16000),
     phot_rp_mean_mag |-> Num(15200), ruwe |-> Num(1300)]

CellValues ==
    [parallax |-> {Masked, Num(-1000), Num(0), Num(10000)},
     parallax_error |-> {Masked, Num(5000), Num(6000)},
     phot_g_mean_mag |-> {Masked},
     phot_bp_mean_mag |-> {Masked},
     phot_rp_mean_mag |-> {Masked},
     ruwe |-> {Masked, Num(1400), Num(1500)}]

CatalogCells ==
    {ValidCells} \cup
    {[ValidCells EXCEPT ![f] = x] : <<f, x>> \in
        UNION {{<<g, y>> : y \in CellValues[g]} : g \in RequiredFields}}

\* The i-th record of a region's catalog content: source_id is unique, the
\* position columns are present, radial_velocity is optional and missing.
CatalogRecord(i, c) ==
    [source_id |-> 100 - i, ra |-> Num(i), dec |-> Num(i),
     parallax |-> c.parallax, parallax_error |-> c.parallax_error,
     phot_g_mean_mag |-> c.phot_g_mean_mag,
     phot_bp_mean_mag |-> c.phot_bp_mean_mag,
     phot_rp_mean_mag |-> c.phot_rp_mean_mag,
     ruwe |-> c.ruwe, radial_velocity |-> Masked]

\* Every catalog content of at most n records.
Skies(n) ==
    UNION {{[i \in 1..k |-> CatalogRecord(i, f[i])] :
                f \in [1..k -> CatalogCells]} : k \in 0..n}

\* --------------------------------------------------------- the pipeline
\* Gaia.cone_search_async under a row limit: TOP limit when the limit is
\* positive, the whole content otherwise (-1 is astroquery's "no limit").
ConeSearch(content, limit) ==
    IF limit > 0 /\ limit < Len(content) THEN SubSeq(content, 1, limit)
    ELSE content

\* Table.to_pandas on one record: a masked float cell becomes NaN.
RowToPandas(row) ==
    [c \in DOMAIN row |->
        IF c \in FloatColumns /\ row[c].kind = "masked" THEN NaN ELSE row[c]]

\* Table.to_pandas: row by row, order kept.
ToPandas(tab) == [i \in 1..Len(tab) |-> RowToPandas(tab[i])]

\* DataFrame.dropna(subset=...)'s keep predicate for one row.
NoneMissing(row) == \A c \in RequiredFields : ~IsNA(row[c])

\* Variant of ParallaxErrorOk: the comparison written <= instead of <.
ParallaxErrorOkInclusive(row) == ~FloatLt(Num(5000), row.parallax_error)

\* gaia_df['parallax_error'] < 5
ParallaxErrorOk(row) == FloatLt(row.parallax_error, Num(5000))

\* gaia_df['ruwe'] < 1.4
RuweOk(row) == FloatLt(row.ruwe, Num(1400))

\* Variant of QualityFilter: the survivors re-sorted by source_id.
QualityFilterSorted(df) ==
    LET dropped == SelectSeq(df, NoneMissing)
        byError == SelectSeq(dropped, ParallaxErrorOk)
        kept == SelectSeq(byError, RuweOk)
    IN  CHOOSE t \in [1..Len(kept) -> {kept[i] : i \in 1..Len(kept)}] :
            /\ {t[i] : i \in 1..Len(kept)} = {kept[i] : i \in 1..Len(kept)}
            /\ \A i, j \in 1..Len(kept) :
                   i < j => t[i].source_id < t[j].source_id

\* The three passes of the apply_filters branch, in the code's order; each
\* is a boolean-mask selection, which keeps the surviving rows in order.
QualityFilter(df) ==
    LET dropped == SelectSeq(df, NoneMissing)
        byError == SelectSeq(dropped, ParallaxErrorOk)
    IN  SelectSeq(byError, RuweOk)

\* Variant of FilterStage: the flag ignored, the filters always applied.
FilterStageAlways(df, flag) == QualityFilter(df)

\* The if apply_filters: block.
FilterStage(df, flag) == IF flag THEN QualityFilter(df) ELSE df

\* The two column assignments on one row.
DeriveRow(row) ==
    [c \in DOMAIN row \cup {"bp_rp_color", "abs_g_mag"} |->
        CASE c = "bp_rp_color" ->
                FloatSub(row.phot_bp_mean_mag, row.phot_rp_mean_mag)
          [] c = "abs_g_mag" ->
                FloatAdd(FloatAdd(row.phot_g_mean_mag,
                                  FloatScale(5, Log10(row.parallax))),
                         Num(-10000))
          [] OTHER -> row[c]]

\* Variant of Derive: records whose abs_g_mag is undefined are dropped.
DeriveDropUndefined(df) ==
    LET Defined(row) == row.abs_g_mag.kind = "num"
    IN  SelectSeq([i \in 1..Len(df) |-> DeriveRow(df[i])], Defined)

\* The derivation stage: element-wise column arithmetic.
Derive(df) == [i \in 1..Len(df) |-> DeriveRow(df[i])]

\* What a run returns when nothing else runs.
RunAlone(content, limit, flag) ==
    Derive(FilterStage(ToPandas(ConeSearch(content, limit)), flag))

\* ------------------------------------------------------------------ state
VARIABLES
    sky,            \* the remote catalog's content for the queried region
    Gaia_ROW_LIMIT, \* the class attribute astroquery.gaia.Gaia.ROW_LIMIT
    pc,             \* pc[r]: where run r of retrieve_data stands
    row_limit,      \* row_limit[r]: the argument of run r
    apply_filters,  \* apply_filters[r]: the argument of run r
    job,            \* job[r]: <<limit>> once run r's query is submitted
    table,          \* table[r]: the astropy table run r fetched
    initial_rows,   \* initial_rows[r]
    gaia_df,        \* gaia_df[r]: the data frame of run r
    result,         \* result[r]: what run r returned
    clusters,       \* main: the records of clusters.csv
    main_pc,        \* main: "idle", "loop", "in_call", "done", "raised"
    idx,            \* main: position of the for loop in clusters
    data_frames,    \* main: the list data_frames
    invoked,        \* main: the calls of retrieve_data made, in order
    plotted         \* main: the calls of plot_hr_diagram made, in order

runVars == <<pc, row_limit, apply_filters, job, table, initial_rows,
             gaia_df, result>>
mainVars == <<clusters, main_pc, idx, data_frames, invoked, plotted>>
vars == <<sky, Gaia_ROW_LIMIT, runVars, mainVars>>

NoResult == [returned |-> FALSE, df |-> <<>>]
Returned(df) == [returned |-> TRUE, df |-> df]

\* The stage of the pipeline a program position belongs to.
Stage(p) ==
    CASE p = "idle" -> "NOT_STARTED"
      [] p \in {"requested", "submitted"} -> "REQUESTED"
      [] p = "raw_received" -> "RAW_RECEIVED"
      [] p = "filtered" -> "FILTERED"
      [] p = "passthrough" -> "PASSTHROUGH"
      [] p = "derived" -> "DERIVED"
      [] p = "done" -> "DONE"
      [] p = "failed" -> "FAILED"

\* --------------------------------------------------- retrieve_data, steps
\* Entry of retrieve_data: Gaia.ROW_LIMIT = row_limit, then the log lines.
Enter(r, limit, flag) ==
    /\ pc[r] = "idle"
    /\ Gaia_ROW_LIMIT' = limit
    /\ pc' = [pc EXCEPT ![r] = "requested"]
    /\ row_limit' = [row_limit EXCEPT ![r] = limit]
    /\ apply_filters' = [apply_filters EXCEPT ![r] = flag]
    /\ job' = [job EXCEPT ![r] = <<>>]
    /\ table' = [table EXCEPT ![r] = <<>>]
    /\ initial_rows' = [initial_rows EXCEPT ![r] = 0]
    /\ gaia_df' = [gaia_df EXCEPT ![r] = <<>>]
    /\ result' = [result EXCEPT ![r] = NoResult]
    /\ UNCHANGED sky

\* Gaia.cone_search_async(...): the query is built under the current value
\* of Gaia.ROW_LIMIT and submitted.
Submit(r) ==
    /\ pc[r] = "requested"
    /\ job' = [job EXCEPT ![r] = <<Gaia_ROW_LIMIT>>]
    /\ pc' = [pc EXCEPT ![r] = "submitted"]
    /\ UNCHANGED <<sky, Gaia_ROW_LIMIT, row_limit, apply_filters, table,
                   initial_rows, gaia_df, result, mainVars>>

\* The remote call raises (on submission or while waiting for the results):
\* the exception leaves retrieve_data, nothing is returned.
RemoteFails(r) ==
    /\ pc[r] \in {"requested", "submitted"}
    /\ pc' = [pc EXCEPT ![r] = "failed"]
    /\ UNCHANGED <<sky, Gaia_ROW_LIMIT, row_limit, apply_filters, job, table,
                   initial_rows, gaia_df, result, mainVars>>

\* job.get_results(), table.to_pandas(), initial_rows = len(gaia_df).
GetResults(r) ==
    /\ pc[r] = "submitted"
    /\ LET tab == ConeSearch(sky, job[r][1])
       IN  /\ table' = [table EXCEPT ![r] = tab]
           /\ gaia_df' = [gaia_df EXCEPT ![r] = ToPandas(tab)]
           /\ initial_rows' = [initial_rows EXCEPT ![r] = Len(ToPandas(tab))]
    /\ pc' = [pc EXCEPT ![r] = "raw_received"]
    /\ UNCHANGED <<sky, Gaia_ROW_LIMIT, row_limit, apply_filters, job,
                   result, mainVars>>

\* The if apply_filters: block and the "After filtering" log line.
ApplyFilters(r) ==
    /\ pc[r] = "raw_received"
    /\ gaia_df' = [gaia_df EXCEPT ![r] = FilterStage(gaia_df[r], apply_filters[r])]
    /\ pc' = [pc EXCEPT ![r] =
                 IF apply_filters[r] THEN "filtered" ELSE "passthrough"]
    /\ UNCHANGED <<sky, Gaia_ROW_LIMIT, row_limit, apply_filters, job, table,
                   initial_rows, result, mainVars>>

\* The two derived columns.
DeriveFields(r) ==
    /\ pc[r] \in {"filtered", "passthrough"}
    /\ gaia_df' = [gaia_df EXCEPT ![r] = Derive(gaia_df[r])]
    /\ pc' = [pc EXCEPT ![r] = "derived"]
    /\ UNCHANGED <<sky, Gaia_ROW_LIMIT, row_limit, apply_filters, job, table,
                   initial_rows, result, mainVars>>

\* Variant of Return: the derivation sits inside the apply_filters branch,
\* so a pass-through run returns its frame underived.
ReturnUnderived(r) ==
    /\ \/ pc[r] = "derived"
       \/ pc[r] = "passthrough"
    /\ result' = [result EXCEPT ![r] = Returned(gaia_df[r])]
    /\ pc' = [pc EXCEPT ![r] = "done"]
    /\ UNCHANGED <<sky, Gaia_ROW_LIMIT, row_limit, apply_filters, job, table,
                   initial_rows, gaia_df, mainVars>>

\* return gaia_df
Return(r) ==
    /\ pc[r] = "derived"
    /\ result' = [result EXCEPT ![r] = Returned(gaia_df[r])]
    /\ pc' = [pc EXCEPT ![r] = "done"]
    /\ UNCHANGED <<sky, Gaia_ROW_LIMIT, row_limit, apply_filters, job, table,
                   initial_rows, gaia_df, mainVars>>

\* ------------------------------------------------------ a direct caller
\* The row limits a caller passes: negative, one that caps, hr.py's.
RowLimits == {-1, 1, ROW_LIMIT}

\* A caller invokes retrieve_data(name, coords, radius, row_limit, flag).
Call(r) ==
    /\ main_pc = "idle"
    /\ \E limit \in RowLimits, flag \in BOOLEAN : Enter(r, limit, flag)
    /\ UNCHANGED mainVars

InitRuns ==
    /\ Gaia_ROW_LIMIT = 50
    /\ pc = [r \in RunIds |-> "idle"]
    /\ row_limit = [r \in RunIds |-> 0]
    /\ apply_filters = [r \in RunIds |-> TRUE]
    /\ job = [r \in RunIds |-> <<>>]
    /\ table = [r \in RunIds |-> <<>>]
    /\ initial_rows = [r \in RunIds |-> 0]
    /\ gaia_df = [r \in RunIds |-> <<>>]
    /\ result = [r \in RunIds |-> NoResult]

InitMainIdle ==
    /\ clusters = <<>>
    /\ main_pc = "idle"
    /\ idx = 1
    /\ data_frames = <<>>
    /\ invoked = <<>>
    /\ plotted = <<>>

\* One run of retrieve_data, called directly.
Init ==
    /\ sky \in Skies(MaxRows)
    /\ InitRuns
    /\ InitMainIdle

Next ==
    \/ Call(1)
    \/ Submit(1)
    \/ RemoteFails(1)
    \/ GetResults(1)
    \/ ApplyFilters(1)
    \/ DeriveFields(1)
    \/ Return(1)

Spec == Init /\ [][Next]_vars

\* --------------------------------------------- two runs, interleaved
\* Two callers (threads of one process) each invoke retrieve_data once on
\* the same region; their steps interleave freely.
InitConcurrent ==
    /\ sky \in Skies(MaxRowsConc)
    /\ InitRuns
    /\ InitMainIdle

NextConcurrent ==
    \E r \in RunIds :
        \/ Call(r)
        \/ Submit(r)
        \/ RemoteFails(r)
        \/ GetResults(r)
        \/ ApplyFilters(r)
        \/ DeriveFields(r)
        \/ Return(r)

SpecConcurrent == InitConcurrent /\ [][NextConcurrent]_vars

\* ------------------------------------------------------- hr.py, main
\* The Process flags a row of clusters.csv may carry.
ProcessFlags == {0, 1}

\* Every batch configuration of at most n regions; a region is named by
\* its position.
Configurations(n) ==
    UNION {{[i \in 1..k |-> [name |-> i, Process |-> f[i]]] :
                f \in [1..k -> ProcessFlags]} : k \in 0..n}

\* if cluster["Process"] == 0 and RUN_ALL == False: continue
MainSkip ==
    /\ main_pc = "loop"
    /\ idx <= Len(clusters)
    /\ clusters[idx].Process = 0 /\ RUN_ALL = FALSE
    /\ idx' = idx + 1
    /\ UNCHANGED <<sky, Gaia_ROW_LIMIT, runVars, clusters, main_pc,
                   data_frames, invoked, plotted>>

\* dr.retrieve_data(cluster_name, coord, search_radius,
\*                  row_limit=ROW_LIMIT, apply_filters=False): the call.
MainCall ==
    /\ main_pc = "loop"
    /\ idx <= Len(clusters)
    /\ ~(clusters[idx].Process = 0 /\ RUN_ALL = FALSE)
    /\ Enter(1, ROW_LIMIT, FALSE)
    /\ invoked' = Append(invoked, clusters[idx].name)
    /\ main_pc' = "in_call"
    /\ UNCHANGED <<clusters, idx, data_frames, plotted>>

\* The call returned: data_frames.append(data_frame), the plot when
\* PLOT_SINGLE, and the next iteration.
MainCollect ==
    /\ main_pc = "in_call"
    /\ pc[1] = "done"
    /\ data_frames' = Append(data_frames, result[1].df)
    /\ plotted' = IF PLOT_SINGLE THEN Append(plotted, clusters[idx].name)
                  ELSE plotted
    /\ idx' = idx + 1
    /\ main_pc' = "loop"
    /\ pc' = [pc EXCEPT ![1] = "idle"]
    /\ UNCHANGED <<sky, Gaia_ROW_LIMIT, row_limit, apply_filters, job, table,
                   initial_rows, gaia_df, result, clusters, invoked>>

\* The call raised: main has no try/except around it, the exception leaves
\* the for loop and main.
MainRaise ==
    /\ main_pc = "in_call"
    /\ pc[1] = "failed"
    /\ main_pc' = "raised"
    /\ UNCHANGED <<sky, Gaia_ROW_LIMIT, runVars, clusters, idx, data_frames,
                   invoked, plotted>>

\* The for loop is exhausted; with PLOT_SINGLE nothing else is done.
MainFinish ==
    /\ main_pc = "loop"
    /\ idx > Len(clusters)
    /\ main_pc' = "done"
    /\ UNCHANGED <<sky, Gaia_ROW_LIMIT, runVars, clusters, idx, data_frames,
                   invoked, plotted>>

InitBatch ==
    /\ sky \in Skies(MaxRowsBatch)
    /\ InitRuns
    /\ clusters \in Configurations(MaxClusters)
    /\ main_pc = "loop"
    /\ idx = 1
    /\ data_frames = <<>>
    /\ invoked = <<>>
    /\ plotted = <<>>

NextBatch ==
    \/ MainSkip
    \/ MainCall
    \/ Submit(1)
    \/ RemoteFails(1)
    \/ GetResults(1)
    \/ ApplyFilters(1)
    \/ DeriveFields(1)
    \/ Return(1)
    \/ MainCollect
    \/ MainRaise
    \/ MainFinish

SpecBatch == InitBatch /\ [][NextBatch]_vars

\* ------------------------------------------------- vocabulary of the claims
Range(s) == {s[i] : i \in 1..Len(s)}

\* s is t with some records left out: the records of s are records of t,
\* cell for cell, in t's order.
IsSubsequence(s, t) ==
    \E f \in [1..Len(s) -> 1..Len(t)] :
        /\ \A i \in 1..Len(s) : s[i] = t[f[i]]
        /\ \A i, j \in 1..Len(s) : i < j => f[i] < f[j]

\* The retrieved cells of an analysis record (the derived ones left out).
Retrieved(row) == [c \in DOMAIN row \ {"bp_rp_color", "abs_g_mag"} |-> row[c]]

RetrievedOf(df) == [i \in 1..Len(df) |-> Retrieved(df[i])]

\* The data frame of run r as it stood before any filtering.
RawFrame(r) == ToPandas(table[r])

Present(x) == x.kind \in {"num", "-inf"}

Below(x, bound) == x.kind = "num" /\ x.v < bound

MeetsThresholds(row) ==
    /\ \A c \in RequiredFields : Present(row[c])
    /\ Below(row.parallax_error, 5000)
    /\ Below(row.ruwe, 1400)

\* ----------------------------------------------------------------- C1
\* C1: with apply_filters=True every record of the filtered frame, and of
\* the table retrieve_data returns, has parallax_error strictly below 5,
\* ruwe strictly below 1.4 and no missing value in a required field.
C1_FilteredMeetThresholds ==
    \A r \in RunIds :
        /\ (apply_filters[r] /\ pc[r] \in {"filtered", "derived", "done"})
              => \A i \in 1..Len(gaia_df[r]) : MeetsThresholds(gaia_df[r][i])
        /\ (apply_filters[r] /\ pc[r] = "done")
              => \A i \in 1..Len(result[r].df) : MeetsThresholds(result[r].df[i])

\* A filtered run whose raw set held a record exactly at the parallax_error
\* threshold and a record that survived.
C1_Witness ==
    /\ pc[1] = "done" /\ apply_filters[1]
    /\ \E i \in 1..Len(RawFrame(1)) : RawFrame(1)[i].parallax_error = Num(5000)
    /\ Len(result[1].df) = 1
    /\ initial_rows[1] = 2

\* ----------------------------------------------------------------- C2
\* C2: the filtered set is a sub-sequence of the raw set: no more records
\* than the raw set, every surviving record equal cell for cell to a raw
\* record, survivors in the raw order.
C2_FilteredIsSubsequence ==
    \A r \in RunIds :
        /\ pc[r] \in {"filtered", "passthrough"} =>
              /\ Len(gaia_df[r]) <= initial_rows[r]
              /\ initial_rows[r] = Len(RawFrame(r))
              /\ IsSubsequence(gaia_df[r], RawFrame(r))
        /\ pc[r] \in {"derived", "done"} =>
              /\ Len(gaia_df[r]) <= initial_rows[r]
              /\ IsSubsequence(RetrievedOf(gaia_df[r]), RawFrame(r))

\* A filtered run that kept two records of its raw set.
C2_WitnessOrder ==
    /\ pc[1] = "filtered"
    /\ initial_rows[1] = 2
    /\ Len(gaia_df[1]) = 2

\* A filtered run that removed the first record and kept the second.
C2_Witness ==
    /\ pc[1] = "filtered"
    /\ initial_rows[1] = 2
    /\ Len(gaia_df[1]) = 1
    /\ gaia_df[1][1] = RawFrame(1)[2]

\* ----------------------------------------------------------------- C3
\* C3: a record with parallax <= 0 that reaches derivation gets abs_g_mag
\* NaN and stays in the collection; for parallax > 0 abs_g_mag is
\* phot_g_mean_mag + 5*log10(parallax) - 10.
AbsGMagAsClaimed(row) ==
    IF row.parallax.kind = "num" /\ row.parallax.v <= 0 THEN NaN
    ELSE IF row.parallax.kind = "num" /\ row.phot_g_mean_mag.kind = "num"
         THEN Num(row.phot_g_mean_mag.v + 5 * Log10Table(row.parallax.v) - 10000)
         ELSE NaN

\* C3: every derived record carries the abs_g_mag stated above: NaN for
\* parallax <= 0, the formula for parallax > 0; no record is dropped.
C3_NonPositiveParallaxGivesNaN ==
    \A r \in RunIds :
        pc[r] \in {"derived", "done"} =>
            \A i \in 1..Len(gaia_df[r]) :
                gaia_df[r][i].abs_g_mag = AbsGMagAsClaimed(gaia_df[r][i])

\* ----------------------------------------------------------------- C4
\* C4: a region whose retrieve_data fails is skipped and the loop goes on:
\* main is never left by a region's failure, and a finished batch has
\* invoked the pipeline for every region with a non-zero flag.
C4_FailureDoesNotAbortBatch ==
    /\ main_pc # "raised"
    /\ main_pc = "done" =>
          \A j \in 1..Len(clusters) :
              clusters[j].Process # 0 => clusters[j].name \in Range(invoked)

\* ----------------------------------------------------------------- C5
\* C5: whatever the interleaving of two runs, each run's query is issued
\* under its own row_limit and each run returns what it returns alone.
C5_RunsIndependent ==
    \A r \in RunIds :
        /\ job[r] # <<>> => job[r][1] = row_limit[r]
        /\ pc[r] = "done" =>
              result[r].df = RunAlone(sky, row_limit[r], apply_filters[r])

\* ----------------------------------------------------------------- C6
\* C6: a run with a negative row_limit never submits the cone search.
C6_NegativeRowLimitNeverSubmitted ==
    \A r \in RunIds :
        (pc[r] # "idle" /\ row_limit[r] < 0) =>
            /\ job[r] = <<>>
            /\ pc[r] \notin {"submitted", "raw_received", "filtered",
                             "passthrough", "derived", "done"}

\* ----------------------------------------------------------------- C7
\* C7: with apply_filters=False the set entering derivation is the raw set:
\* same count, same records in the same order, cell for cell, and the
\* removed count initial_rows - len(gaia_df) is 0.
C7_PassThroughIsIdentity ==
    \A r \in RunIds :
        /\ (~apply_filters[r] /\ pc[r] # "idle") => pc[r] # "filtered"
        /\ pc[r] = "passthrough" =>
              /\ ~apply_filters[r]
              /\ gaia_df[r] = RawFrame(r)
              /\ Len(gaia_df[r]) = Len(table[r])
              /\ initial_rows[r] - Len(gaia_df[r]) = 0

\* A pass-through run whose raw set holds a record with a missing required
\* value and a record at or above a threshold.
C7_Witness ==
    /\ pc[1] = "passthrough"
    /\ Len(gaia_df[1]) = 2
    /\ \E i \in 1..2 : \E c \in RequiredFields : gaia_df[1][i][c] = NaN
    /\ \E i \in 1..2 : gaia_df[1][i].parallax_error = Num(6000)

\* ----------------------------------------------------------------- C8
\* C8: main invokes retrieve_data exactly once for each region with a
\* non-zero flag, in configuration order, and never for a region with
\* flag 0; only invoked regions are collected.
NonZeroRegions ==
    LET Wanted(c) == c.Process # 0
        kept == SelectSeq(clusters, Wanted)
    IN  [i \in 1..Len(kept) |-> kept[i].name]

\* C8: only regions with a non-zero flag are invoked, and when main ends the
\* invocations are exactly the non-zero regions, once each, in order.
C8_InvokedExactlyNonZeroRegions ==
    /\ \A i \in 1..Len(invoked) : clusters[invoked[i]].Process # 0
    /\ Len(data_frames) <= Len(invoked)
    /\ main_pc \in {"done", "raised"} => invoked = NonZeroRegions

\* ----------------------------------------------------------------- C9
\* C9: derivation returns one record per record entering it, in the same
\* order, the retrieved cells untouched, each record carrying bp_rp_color
\* (phot_bp_mean_mag - phot_rp_mean_mag) and abs_g_mag; the collection
\* returned is the derived one.
ColorAsClaimed(row) ==
    IF row.phot_bp_mean_mag.kind = "num" /\ row.phot_rp_mean_mag.kind = "num"
    THEN Num(row.phot_bp_mean_mag.v - row.phot_rp_mean_mag.v)
    ELSE NaN

DerivationKeepsRecords(r) ==
    /\ (pc[r] \in {"filtered", "passthrough"} /\ pc'[r] # pc[r]) =>
          /\ pc'[r] = "derived"
          /\ Len(gaia_df'[r]) = Len(gaia_df[r])
          /\ RetrievedOf(gaia_df'[r]) = gaia_df[r]
          /\ \A i \in 1..Len(gaia_df'[r]) :
                /\ DOMAIN gaia_df'[r][i] =
                       DOMAIN gaia_df[r][i] \cup {"bp_rp_color", "abs_g_mag"}
                /\ gaia_df'[r][i].bp_rp_color = ColorAsClaimed(gaia_df[r][i])
                /\ gaia_df'[r][i].abs_g_mag.kind \in {"num", "nan", "-inf"}
    /\ (pc[r] = "derived" /\ pc'[r] # pc[r]) =>
          /\ result'[r] = Returned(gaia_df[r])
          /\ gaia_df'[r] = gaia_df[r]

\* C9: every step of the derivation stage, for every run, keeps the count,
\* the order and the retrieved cells and adds both derived fields.
C9_DerivationPreservesCardinality ==
    [][\A r \in RunIds : DerivationKeepsRecords(r)]_vars

\* A derived pass-through set of two records, one of negative parallax
\* (abs_g_mag NaN) and one with a missing magnitude.
C9_Witness ==
    /\ pc[1] = "derived"
    /\ Len(gaia_df[1]) = 2
    /\ \E i \in 1..2 : /\ gaia_df[1][i].parallax = Num(-1000)
                       /\ gaia_df[1][i].abs_g_mag = NaN
    /\ \E i \in 1..2 : gaia_df[1][i].phot_bp_mean_mag = NaN

\* ----------------------------------------------------------------- C10
\* C10: a run moves REQUESTED, RAW_RECEIVED, FILTERED (apply_filters) or
\* PASSTHROUGH (not apply_filters), DERIVED, DONE, no stage skipped or
\* revisited; it fails only from REQUESTED, and a failed run has no
\* table, filtered set or result; a table is returned at DONE only.
StageOrder(r) ==
    LET from == Stage(pc[r])
        to == Stage(pc'[r])
    IN  /\ from # to =>
              \/ from = "NOT_STARTED" /\ to = "REQUESTED"
              \/ from = "REQUESTED" /\ to = "RAW_RECEIVED"
              \/ from = "REQUESTED" /\ to = "FAILED"
              \/ from = "RAW_RECEIVED" /\ to = "FILTERED" /\ apply_filters[r]
              \/ from = "RAW_RECEIVED" /\ to = "PASSTHROUGH" /\ ~apply_filters[r]
              \/ from = "FILTERED" /\ to = "DERIVED"
              \/ from = "PASSTHROUGH" /\ to = "DERIVED"
              \/ from = "DERIVED" /\ to = "DONE"
        /\ to = "FAILED" =>
              /\ table'[r] = <<>> /\ gaia_df'[r] = <<>>
              /\ result'[r] = NoResult
        /\ result'[r].returned <=> to = "DONE"
        /\ to = "DONE" =>
              \A i \in 1..Len(result'[r].df) :
                  {"bp_rp_color", "abs_g_mag"} \subseteq DOMAIN result'[r].df[i]

\* C10: every step of every run follows the linear stage order; failure
\* is entered from REQUESTED only and leaves no table.
C10_StagesInLinearOrder == [][\A r \in RunIds : StageOrder(r)]_vars

\* A pass-through run that reached DONE and returned a non-empty table.
C10_Witness ==
    /\ pc[1] = "done"
    /\ ~apply_filters[1]
    /\ result[1].returned
    /\ Len(result[1].df) = 2

\* A run that failed after its query was submitted.
C10_WitnessFailed == pc[1] = "failed" /\ job[1] # <<>>

====
